---- MODULE Spec2Model ----
(***************************************************************************)
(* ReadWriteRegistry (rwregistry.go): a map from metric names to metric    *)
(* instances guarded by a sync.RWMutex.  Every goroutine is a stack of     *)
(* call frames: the bottom frame is a call made by the application, a      *)
(* frame above it is a call made from inside a visitor (Each), a factory   *)
(* (GetOrRegister) or a Check() (RunHealthchecks) of the frame below.      *)
(***************************************************************************)
EXTENDS Integers, Sequences, FiniteSets, Bags, TLC

\* ---------------------------------------------------------------- bounds
NumThreads == 2    \* goroutines calling into the registry
MaxDepth == 2      \* call frames per goroutine (1 = no call from a callback)
MaxCalls == 2      \* registry calls started in one behaviour

\* ---------------------------------------------------------------- values
Threads == 1..NumThreads
Names == {"a", "b"}

\* the nil interface value / nil error
Nil == "nil"
\* marks a key that is not in a Go map
Absent == "absent"

\* metric instances handed to the registry; Kind is the dynamic type
Counters == {"counterA", "counterB"}
Healthchecks == {"healthA"}
Unrecognized == {"bogus"}
Instances == Counters \cup Healthchecks \cup Unrecognized
\* the values callers hand to Register
Values == {"counterA", "healthA", "bogus"}
\* zero-argument functions handed to GetOrRegister
Factories == {"newCounterB", "newBogus"}
\* what callers hand to GetOrRegister: a value or a factory
Args == {"counterA", "bogus"} \cup Factories

Kind(i) ==
    IF i \in Counters THEN "Counter"
    ELSE IF i \in Healthchecks THEN "Healthcheck"
    ELSE IF i \in Factories THEN "Func"
    ELSE "Other"

\* v.Call(nil)[0].Interface()
Invoke(f) == IF f = "newCounterB" THEN "counterB" ELSE "bogus"

\* reflect.ValueOf(i).Kind() == reflect.Func
IsFunc(i) == Kind(i) = "Func"

\* case Counter, Gauge, GaugeFloat64, Healthcheck, Histogram, Meter, Timer
RecognizedKinds ==
    {"Counter", "Gauge", "GaugeFloat64", "Healthcheck", "Histogram", "Meter", "Timer"}

Recognized_all(i) == TRUE
Recognized(i) == Kind(i) \in RecognizedKinds

\* h, ok := i.(Healthcheck)
IsHealthcheck_all(i) == TRUE
IsHealthcheck(i) == Kind(i) = "Healthcheck"

DuplicateMetric(name) == "DuplicateMetric(" \o name \o ")"

\* make(map[string]interface{})
EmptyMap == [n \in Names |-> Absent]
Keys(m) == {n \in Names : m[n] # Absent}
Pairs(m) == {<<n, m[n]>> : n \in Keys(m)}

\* r.metrics[name] as a one-value index expression: nil when the key is missing
Lookup(m, name) == IF m[name] = Absent THEN Nil ELSE m[name]

\* ReadWriteRegistry.register: the map and the error it leaves
register_nostore(m, name, i) ==
    IF m[name] # Absent
    THEN [metrics |-> m, err |-> DuplicateMetric(name)]
    ELSE [metrics |-> m, err |-> Nil]
register_nocheck(m, name, i) ==
    IF m[name] # Absent
    THEN [metrics |-> m, err |-> DuplicateMetric(name)]
    ELSE [metrics |-> [m EXCEPT ![name] = i], err |-> Nil]
register_overwrite(m, name, i) ==
    IF Recognized(i)
    THEN [metrics |-> [m EXCEPT ![name] = i],
          err |-> IF m[name] # Absent THEN DuplicateMetric(name) ELSE Nil]
    ELSE [metrics |-> m,
          err |-> IF m[name] # Absent THEN DuplicateMetric(name) ELSE Nil]
register(m, name, i) ==
    IF m[name] # Absent
    THEN [metrics |-> m, err |-> DuplicateMetric(name)]
    ELSE IF Recognized(i)
         THEN [metrics |-> [m EXCEPT ![name] = i], err |-> Nil]
         ELSE [metrics |-> m, err |-> Nil]

\* delete(r.metrics, name)
delete_all(m, name) == [n \in Names |-> Absent]
delete(m, name) == [m EXCEPT ![name] = Absent]

\* for name, _ := range r.metrics { delete(r.metrics, name) }
deleteAll_one(m) ==
    IF Keys(m) = {} THEN m
    ELSE LET n == CHOOSE k \in Keys(m) : TRUE IN delete(m, n)
RECURSIVE deleteAll(_)
deleteAll(m) ==
    IF Keys(m) = {} THEN m
    ELSE LET n == CHOOSE k \in Keys(m) : TRUE IN deleteAll(delete(m, n))

\* ----------------------------------------------------------------- state
VARIABLES
    metrics,      \* r.metrics
    readerCount,  \* r.mutex: number of read holds
    writer,       \* r.mutex: "free", "pending" (Lock called, readers draining) or "held"
    stack,        \* per goroutine, the frames of its registry calls in progress
    entries,      \* history: the name -> instance binding made by insert and delete events
    ncalls        \* history: registry calls started so far

vars == <<metrics, readerCount, writer, stack, entries, ncalls>>

\* the locals of one call, and what it has done so far
NewFrame(op, pc, name, i) ==
    [op |-> op, pc |-> pc, name |-> name, i |-> i,
     arg |-> i,              \* history: the argument i as the caller passed it
     ret |-> Nil,            \* the value returned (Get, GetOrRegister)
     err |-> Nil,            \* the error returned (Register)
     snap |-> EmptyMap,      \* registered(): the copy being built / ranged over
     seen |-> {},            \* keys the running range loop has produced
     visited |-> EmptyBag,   \* history: <<name, instance>> handed to f / to Check()
     at |-> EmptyMap,        \* history: r.metrics when this call took its read lock
     calls |-> 0,            \* history: factory invocations made by this call
     found |-> "none",       \* history: was name bound at the first lookup / at register
     ins |-> "none"]         \* history: was name bound when GetOrRegister registered

Depth(t) == Len(stack[t])
Top(t) == stack[t][Depth(t)]
SetTop(t, f) == [stack EXCEPT ![t] = [@ EXCEPT ![Len(@)] = f]]
At(t, op, pc) == Depth(t) > 0 /\ Top(t).op = op /\ Top(t).pc = pc

\* a frame whose user callback (visitor, factory, Check) is running
CallbackPcs == {"visit", "factory", "Check"}
InCallback(t) == Depth(t) > 0 /\ Top(t).pc \in CallbackPcs

\* the registry NewReadWriteRegistry returned, after the application's set-up
\* has called Register("a", healthA): one name is bound and one is not
InitialMap == register(EmptyMap, "a", "healthA").metrics

Init ==
    /\ metrics = InitialMap
    /\ readerCount = 0
    /\ writer = "free"
    /\ stack = [t \in Threads |-> <<>>]
    /\ entries = metrics
    /\ ncalls = 0

\* --------------------------------------------------------- sync.RWMutex
\* RLock blocks while a writer holds the lock or is waiting for it
CanRLock_always == TRUE
CanRLock == writer = "free"
\* Lock first excludes the other writers and announces itself to new readers
CanLock == writer = "free"
\* ... and then waits for the read holds to be released
CanAcquire_always == TRUE
CanAcquire == readerCount = 0

\* RUnlock gives up one read hold
Released_leak(n) == n
Released(n) == n - 1

\* ---------------------------------------------------------------- calls
\* a goroutine, or the callback it is running, calls into the registry
CanCall(t) ==
    /\ ncalls < MaxCalls
    /\ Depth(t) < MaxDepth
    /\ Depth(t) > 0 => InCallback(t)

Push(t, f) ==
    /\ stack' = [stack EXCEPT ![t] = Append(@, f)]
    /\ ncalls' = ncalls + 1
    /\ UNCHANGED <<metrics, readerCount, writer, entries>>

CallGet(t) ==
    /\ CanCall(t)
    /\ \E name \in Names : Push(t, NewFrame("Get", "RLock", name, Nil))

CallGetOrRegister(t) ==
    /\ CanCall(t)
    /\ \E name \in Names, i \in Args : Push(t, NewFrame("GetOrRegister", "RLock", name, i))

CallRegister(t) ==
    /\ CanCall(t)
    /\ \E name \in Names, i \in Values : Push(t, NewFrame("Register", "Lock", name, i))

CallRunHealthchecks(t) ==
    /\ CanCall(t)
    /\ Push(t, NewFrame("RunHealthchecks", "RLock", Nil, Nil))

CallUnregister(t) ==
    /\ CanCall(t)
    /\ \E name \in Names : Push(t, NewFrame("Unregister", "Lock", name, Nil))

CallUnregisterAll(t) ==
    /\ CanCall(t)
    /\ Push(t, NewFrame("UnregisterAll", "Lock", Nil, Nil))

CallEach(t) ==
    /\ CanCall(t)
    /\ Push(t, NewFrame("Each", "RLock", Nil, Nil))

\* a finished call returns to its caller
Return(t) ==
    /\ Depth(t) > 0
    /\ Top(t).pc = "done"
    /\ stack' = [stack EXCEPT ![t] = SubSeq(@, 1, Len(@) - 1)]
    /\ UNCHANGED <<metrics, readerCount, writer, entries, ncalls>>

\* ------------------------------------------------- shared lock steps
\* r.mutex.RLock()
RLockStep(t, op, next) ==
    /\ At(t, op, "RLock")
    /\ CanRLock
    /\ readerCount' = readerCount + 1
    /\ stack' = SetTop(t, [Top(t) EXCEPT !.pc = next, !.at = metrics])
    /\ UNCHANGED <<metrics, writer, entries, ncalls>>

\* r.mutex.RUnlock()
RUnlockStep(t, op, next) ==
    /\ At(t, op, "RUnlock")
    /\ readerCount' = Released(readerCount)
    /\ stack' = SetTop(t, [Top(t) EXCEPT !.pc = next])
    /\ UNCHANGED <<metrics, writer, entries, ncalls>>

\* r.mutex.Lock(), first half: become the pending writer
LockStep(t, op) ==
    /\ At(t, op, "Lock")
    /\ CanLock
    /\ writer' = "pending"
    /\ stack' = SetTop(t, [Top(t) EXCEPT !.pc = "LockWait"])
    /\ UNCHANGED <<metrics, readerCount, entries, ncalls>>

\* r.mutex.Lock(), second half: the readers are gone and the lock is held;
\* the statement under the lock follows in the same step
Acquired(t, op) ==
    /\ At(t, op, "LockWait")
    /\ CanAcquire
    /\ writer' = "held"

\* defer r.mutex.Unlock()
UnlockStep(t, op) ==
    /\ At(t, op, "Unlock")
    /\ writer' = "free"
    /\ stack' = SetTop(t, [Top(t) EXCEPT !.pc = "done"])
    /\ UNCHANGED <<metrics, readerCount, entries, ncalls>>

\* history: what an insert or a delete event does to the name -> instance binding
Bind(e, name, i) == IF e[name] = Absent /\ Kind(i) \in RecognizedKinds
                    THEN [e EXCEPT ![name] = i] ELSE e
Unbind(e, name) == [e EXCEPT ![name] = Absent]
Bound(e, name) == IF e[name] = Absent THEN "absent" ELSE "present"

\* ------------------------------------------------------------------ Get
\* r.mutex.RLock(); return r.metrics[name], the result is evaluated
Get_read(t) ==
    /\ At(t, "Get", "RLock")
    /\ CanRLock
    /\ readerCount' = readerCount + 1
    /\ stack' = SetTop(t, [Top(t) EXCEPT !.ret = Lookup(metrics, Top(t).name),
                                         !.at = metrics, !.pc = "RUnlock"])
    /\ UNCHANGED <<metrics, writer, entries, ncalls>>

Get_RUnlock(t) == RUnlockStep(t, "Get", "done")

\* ------------------------------------------------------------- Register
Register_Lock(t) == LockStep(t, "Register")

\* return r.register(name, i)
Register_register(t) ==
    /\ Acquired(t, "Register")
    /\ LET f == Top(t)
           r == register(metrics, f.name, f.i)
       IN /\ metrics' = r.metrics
          /\ entries' = Bind(entries, f.name, f.i)
          /\ stack' = SetTop(t, [f EXCEPT !.err = r.err, !.pc = "Unlock",
                                          !.found = Bound(entries, f.name)])
    /\ UNCHANGED <<readerCount, ncalls>>

Register_Unlock(t) == UnlockStep(t, "Register")

\* ----------------------------------------------------------- Unregister
Unregister_Lock(t) == LockStep(t, "Unregister")

Unregister_delete(t) ==
    /\ Acquired(t, "Unregister")
    /\ metrics' = delete(metrics, Top(t).name)
    /\ entries' = Unbind(entries, Top(t).name)
    /\ stack' = SetTop(t, [Top(t) EXCEPT !.pc = "Unlock",
                                         !.found = Bound(entries, Top(t).name)])
    /\ UNCHANGED <<readerCount, ncalls>>

Unregister_Unlock(t) == UnlockStep(t, "Unregister")

\* -------------------------------------------------------- UnregisterAll
UnregisterAll_Lock(t) == LockStep(t, "UnregisterAll")

UnregisterAll_delete(t) ==
    /\ Acquired(t, "UnregisterAll")
    /\ metrics' = deleteAll(metrics)
    /\ entries' = EmptyMap
    /\ stack' = SetTop(t, [Top(t) EXCEPT !.pc = "Unlock"])
    /\ UNCHANGED <<readerCount, ncalls>>

UnregisterAll_Unlock(t) == UnlockStep(t, "UnregisterAll")

\* -------------------------------------------------------- GetOrRegister
\* metric, ok := r.metrics[name]
Present_never(m, name) == FALSE
Present(m, name) == m[name] # Absent

\* r.register(name, i) as a statement: the error is dropped
Dropped_kept(err) == err
Dropped(err) == Nil

GetOrRegister_RLock(t) == RLockStep(t, "GetOrRegister", "lookup")

\* the optimistic read: return the entry, or release the lock and go on
GetOrRegister_lookup(t) ==
    /\ At(t, "GetOrRegister", "lookup")
    /\ LET f == Top(t) IN
         IF Present(metrics, f.name)
         THEN stack' = SetTop(t, [f EXCEPT !.ret = metrics[f.name], !.pc = "done",
                                           !.found = Bound(entries, f.name)])
         ELSE IF IsFunc(f.i)
              THEN stack' = SetTop(t, [f EXCEPT !.pc = "factory", !.calls = @ + 1,
                                                !.found = Bound(entries, f.name)])
              ELSE stack' = SetTop(t, [f EXCEPT !.pc = "Lock",
                                                !.found = Bound(entries, f.name)])
    /\ readerCount' = Released(readerCount)
    /\ UNCHANGED <<metrics, writer, entries, ncalls>>

\* i = v.Call(nil)[0].Interface(): the factory returns
GetOrRegister_factoryReturn(t) ==
    /\ At(t, "GetOrRegister", "factory")
    /\ stack' = SetTop(t, [Top(t) EXCEPT !.i = Invoke(@), !.pc = "Lock"])
    /\ UNCHANGED <<metrics, readerCount, writer, entries, ncalls>>

GetOrRegister_Lock(t) == LockStep(t, "GetOrRegister")

\* r.register(name, i); return i
GetOrRegister_register(t) ==
    /\ Acquired(t, "GetOrRegister")
    /\ LET f == Top(t)
           r == register(metrics, f.name, f.i)
       IN /\ metrics' = r.metrics
          /\ entries' = Bind(entries, f.name, f.i)
          /\ stack' = SetTop(t, [f EXCEPT !.err = Dropped(r.err), !.ret = f.i,
                                          !.pc = "Unlock",
                                          !.ins = Bound(entries, f.name)])
    /\ UNCHANGED <<readerCount, ncalls>>

GetOrRegister_Unlock(t) == UnlockStep(t, "GetOrRegister")

\* ----------------------------------------------------------------- Each
\* the keys a range loop over m has still to produce
Remaining(m, seen) == Keys(m) \ seen

\* registered(): r.mutex.RLock()
Each_RLock(t) == RLockStep(t, "Each", "copy")

\* registered(): metrics[name] = i, one iteration of the copy loop
Each_copy(t) ==
    /\ At(t, "Each", "copy")
    /\ \E n \in Remaining(metrics, Top(t).seen) :
         stack' = SetTop(t, [Top(t) EXCEPT !.snap = [@ EXCEPT ![n] = metrics[n]],
                                           !.seen = @ \cup {n}])
    /\ UNCHANGED <<metrics, readerCount, writer, entries, ncalls>>

\* registered(): the copy loop ends; return metrics, with the deferred
\* r.mutex.RUnlock()
Each_copyDone(t) ==
    /\ At(t, "Each", "copy")
    /\ Remaining(metrics, Top(t).seen) = {}
    /\ readerCount' = Released(readerCount)
    /\ stack' = SetTop(t, [Top(t) EXCEPT !.seen = {}, !.pc = "range"])
    /\ UNCHANGED <<metrics, writer, entries, ncalls>>

\* the map Each ranges over: the copy registered() returned
Ranged(f) == f.snap

\* f(name, i): the visitor is called with the next pair of the copy
Each_visit(t) ==
    /\ At(t, "Each", "range")
    /\ LET f == Top(t) IN
       \E n \in Remaining(Ranged(f), f.seen) :
         stack' = SetTop(t, [f EXCEPT !.name = n, !.seen = @ \cup {n},
                                      !.visited = @ (+) SetToBag({<<n, Ranged(f)[n]>>}),
                                      !.pc = "visit"])
    /\ UNCHANGED <<metrics, readerCount, writer, entries, ncalls>>

\* the visitor returns
Each_visitReturn(t) ==
    /\ At(t, "Each", "visit")
    /\ stack' = SetTop(t, [Top(t) EXCEPT !.pc = "range"])
    /\ UNCHANGED <<metrics, readerCount, writer, entries, ncalls>>

\* the range loop ends
Each_rangeDone(t) ==
    /\ At(t, "Each", "range")
    /\ Remaining(Ranged(Top(t)), Top(t).seen) = {}
    /\ stack' = SetTop(t, [Top(t) EXCEPT !.pc = "done"])
    /\ UNCHANGED <<metrics, readerCount, writer, entries, ncalls>>

\* ------------------------------------------------------ RunHealthchecks
RunHealthchecks_RLock(t) == RLockStep(t, "RunHealthchecks", "range")

\* one iteration of the loop: h.Check() when the entry is a Healthcheck
RunHealthchecks_next(t) ==
    /\ At(t, "RunHealthchecks", "range")
    /\ LET f == Top(t) IN
       \E n \in Remaining(metrics, f.seen) :
         IF IsHealthcheck(metrics[n])
         THEN stack' = SetTop(t, [f EXCEPT !.name = n, !.seen = @ \cup {n},
                                           !.visited = @ (+) SetToBag({<<n, metrics[n]>>}),
                                           !.pc = "Check"])
         ELSE stack' = SetTop(t, [f EXCEPT !.name = n, !.seen = @ \cup {n}])
    /\ UNCHANGED <<metrics, readerCount, writer, entries, ncalls>>

\* Check() returns
RunHealthchecks_CheckReturn(t) ==
    /\ At(t, "RunHealthchecks", "Check")
    /\ stack' = SetTop(t, [Top(t) EXCEPT !.pc = "range"])
    /\ UNCHANGED <<metrics, readerCount, writer, entries, ncalls>>

\* the loop ends
RunHealthchecks_rangeDone(t) ==
    /\ At(t, "RunHealthchecks", "range")
    /\ Remaining(metrics, Top(t).seen) = {}
    /\ stack' = SetTop(t, [Top(t) EXCEPT !.pc = "RUnlock"])
    /\ UNCHANGED <<metrics, readerCount, writer, entries, ncalls>>

\* defer r.mutex.RUnlock()
RunHealthchecks_RUnlock(t) == RUnlockStep(t, "RunHealthchecks", "done")

\* ----------------------------------------------------------------- next
\* a call into the registry by goroutine t, or by the callback it is running
Call(t) ==
    \/ CallGet(t)
    \/ CallGetOrRegister(t)
    \/ CallRegister(t)
    \/ CallRunHealthchecks(t)
    \/ CallUnregister(t)
    \/ CallUnregisterAll(t)
    \/ CallEach(t)

\* one statement of the call goroutine t is in, or its return
Step(t) ==
    \/ Return(t)
    \/ Get_read(t)
    \/ Get_RUnlock(t)
    \/ GetOrRegister_RLock(t)
    \/ GetOrRegister_lookup(t)
    \/ GetOrRegister_factoryReturn(t)
    \/ GetOrRegister_Lock(t)
    \/ GetOrRegister_register(t)
    \/ GetOrRegister_Unlock(t)
    \/ Register_Lock(t)
    \/ Register_register(t)
    \/ Register_Unlock(t)
    \/ RunHealthchecks_RLock(t)
    \/ RunHealthchecks_next(t)
    \/ RunHealthchecks_CheckReturn(t)
    \/ RunHealthchecks_rangeDone(t)
    \/ RunHealthchecks_RUnlock(t)
    \/ Unregister_Lock(t)
    \/ Unregister_delete(t)
    \/ Unregister_Unlock(t)
    \/ UnregisterAll_Lock(t)
    \/ UnregisterAll_delete(t)
    \/ UnregisterAll_Unlock(t)
    \/ Each_RLock(t)
    \/ Each_copy(t)
    \/ Each_copyDone(t)
    \/ Each_visit(t)
    \/ Each_visitReturn(t)
    \/ Each_rangeDone(t)

Next == \E t \in Threads : Call(t) \/ Step(t)

Spec == Init /\ [][Next]_vars

\* The same program with visitors, factories and Check() implementations that
\* return without calling the registry, so calls come from the goroutines
\* alone, and with every goroutine scheduled again and again: the Go
\* scheduler preempts and resumes every runnable goroutine, and a goroutine
\* parked in RLock or Lock is woken when the lock is handed over (a pending
\* writer holds back new readers, so its wait ends when the present readers
\* have left).
NextFair == \E t \in Threads : (Depth(t) = 0 /\ Call(t)) \/ Step(t)
Fairness == \A t \in Threads : WF_vars(Step(t))
SpecFair == Init /\ [][NextFair]_vars /\ Fairness

\* =============================================================== claims
FrameIds == {id \in Threads \X (1..MaxDepth + 1) : id[2] <= Len(stack[id[1]])}
Frame(id) == stack[id[1]][id[2]]
FramesOf(op) == {id \in FrameIds : Frame(id).op = op}
IsRecognized(v) == Kind(v) \in RecognizedKinds
\* the step taken is a step of goroutine t's top frame, which is at op/pc
Steps(t, op, pc) == At(t, op, pc) /\ stack'[t] # stack[t]

\* C1: Register(n, m) of an unbound name n with a recognized m returns no
\* error and binds n to m, and a Get(n) returns the instance n is bound to
\* for as long as no Unregister(n) / UnregisterAll has removed it.
C1_RegisterThenGet ==
    /\ \A id \in FramesOf("Register") :
         LET f == Frame(id) IN
         (f.pc \in {"Unlock", "done"} /\ f.found = "absent" /\ IsRecognized(f.i))
            => /\ f.err = Nil
               /\ f.pc = "Unlock" => entries[f.name] = f.i
    /\ \A id \in FramesOf("Get") :
         LET f == Frame(id) IN
         (f.pc = "RUnlock" /\ entries[f.name] # Absent) => f.ret = entries[f.name]

\* a Register of a fresh name has returned nil, and a concurrent Get reads
\* the instance it stored
C1_Witness ==
    \E r \in FramesOf("Register"), g \in FramesOf("Get") :
        /\ Frame(r).pc = "done" /\ Frame(r).found = "absent" /\ Frame(r).err = Nil
        /\ IsRecognized(Frame(r).i)
        /\ Frame(g).pc = "RUnlock" /\ Frame(g).name = Frame(r).name
        /\ Frame(g).ret = Frame(r).i

\* C2: Register(n, v) of a bound name n returns DuplicateMetric(n) for every
\* v and changes nothing in the registry.
C2_DuplicateLeavesRegistry ==
    [][\A t \in Threads :
         (Steps(t, "Register", "LockWait") /\ entries[Top(t).name] # Absent)
            => /\ metrics' = metrics
               /\ stack'[t][Depth(t)].err = DuplicateMetric(Top(t).name)]_vars

\* a Register of a different recognized instance under a bound name got the error
C2_Witness ==
    \E r \in FramesOf("Register") :
        /\ Frame(r).pc = "Unlock" /\ Frame(r).found = "present"
        /\ Frame(r).err = DuplicateMetric(Frame(r).name)
        /\ IsRecognized(Frame(r).i) /\ metrics[Frame(r).name] # Frame(r).i

\* C3: Register(n, v) of an unbound name n with a v outside the recognized
\* set returns no error, leaves the registry unchanged, and n stays absent.
C3_UnrecognizedDropped ==
    [][\A t \in Threads :
         (Steps(t, "Register", "LockWait") /\ entries[Top(t).name] = Absent
            /\ ~IsRecognized(Top(t).i))
            => /\ metrics' = metrics
               /\ stack'[t][Depth(t)].err = Nil
               /\ metrics'[Top(t).name] = Absent
               /\ Lookup(metrics', Top(t).name) = Nil]_vars

\* a Register of an unrecognized value under a fresh name has returned nil
C3_Witness ==
    \E r \in FramesOf("Register") :
        /\ Frame(r).pc = "Unlock" /\ Frame(r).found = "absent"
        /\ ~IsRecognized(Frame(r).i) /\ Frame(r).err = Nil
        /\ metrics[Frame(r).name] = Absent

\* C4: no step replaces the instance bound to a name by another instance; a
\* bound name changes only by becoming absent, in a delete of Unregister or
\* UnregisterAll.
C4_NeverOverwrites ==
    [][\A n \in Names :
         metrics[n] # Absent =>
            /\ metrics'[n] \in {metrics[n], Absent}
            /\ metrics'[n] = Absent =>
                 \E t \in Threads : \/ Steps(t, "Unregister", "LockWait")
                                    \/ Steps(t, "UnregisterAll", "LockWait")]_vars

\* a GetOrRegister that found the name absent registered after another
\* insert of a different instance, which is still the one bound
C4_Witness ==
    \E g \in FramesOf("GetOrRegister") :
        /\ Frame(g).pc = "Unlock" /\ Frame(g).found = "absent" /\ Frame(g).ins = "present"
        /\ IsRecognized(Frame(g).i)
        /\ metrics[Frame(g).name] \notin {Frame(g).i, Absent}

\* C5: every value stored in the registry is of a recognized type.
C5_OnlyRecognizedStored ==
    \A n \in Names : metrics[n] # Absent => IsRecognized(metrics[n])

\* unrecognized values were offered by Register and by a factory of
\* GetOrRegister, and a factory's recognized result is stored
C5_Witness ==
    /\ \E r \in FramesOf("Register") :
         Frame(r).pc = "done" /\ ~IsRecognized(Frame(r).i) /\ Frame(r).found = "absent"
    /\ \E g \in FramesOf("GetOrRegister") :
         /\ Frame(g).pc = "Unlock" /\ Frame(g).calls = 1 /\ Frame(g).ins = "absent"
         /\ metrics[Frame(g).name] = Frame(g).ret

\* C6: when the only calls made are GetOrRegister(n, v_i) with recognized
\* values for one name n that is absent at the start, then once all have
\* returned n is bound to exactly one entry: the value of the one caller
\* whose insert found n still absent, the first to take the write lock; the
\* later inserts stored nothing, and no caller has a duplicate-metric error.
C6_Callers == {id \in FramesOf("GetOrRegister") : id[2] = 1 /\ Frame(id).pc = "done"}
C6_ConcurrentGetOrRegister ==
    \A n \in Names :
      LET G == C6_Callers IN
      (/\ ncalls = Cardinality(G)
       /\ \A id \in G : Frame(id).name = n /\ IsRecognized(Frame(id).ret)
       /\ \E id \in G : Frame(id).found = "absent")
      => /\ metrics[n] # Absent
         /\ \E id \in G : metrics[n] = Frame(id).ret /\ Frame(id).ins = "absent"
         /\ Cardinality({id \in G : Frame(id).ins = "absent"}) = 1
         /\ \A id \in G : Frame(id).err = Nil

\* two callers raced: both found n absent and materialized different values
C6_Witness ==
    \E g1, g2 \in C6_Callers :
        /\ ncalls = 2 /\ g1 # g2
        /\ Frame(g1).name = Frame(g2).name
        /\ Frame(g1).found = "absent" /\ Frame(g2).found = "absent"
        /\ IsRecognized(Frame(g1).ret) /\ IsRecognized(Frame(g2).ret)
        /\ Frame(g1).ret # Frame(g2).ret
        /\ metrics[Frame(g1).name] = Frame(g1).ret

\* C7 as first stated: GetOrRegister(n, factoryFn) invokes factoryFn exactly
\* once when n is unbound at the first lookup and, if n is still unbound at
\* the insert, stores the result under n and returns it; when n is bound at
\* the first lookup the factory is not invoked, the call never reaches its
\* insert, and the bound instance is returned.
C7_Original ==
    \A id \in FramesOf("GetOrRegister") :
      LET f == Frame(id) IN
      f.arg \in Factories =>
        /\ (f.found = "absent" /\ f.pc \in {"Lock", "LockWait", "Unlock", "done"})
              => f.calls = 1
        /\ (f.pc = "Unlock" /\ f.ins = "absent")
              => f.ret = Invoke(f.arg) /\ metrics[f.name] = Invoke(f.arg)
        /\ f.found = "present"
              => /\ f.calls = 0 /\ f.pc = "done" /\ f.ins = "none"
                 /\ f.ret = f.at[f.name]

\* C7: GetOrRegister(n, factoryFn) invokes factoryFn exactly once when n is
\* unbound at the first lookup and returns its result; if n is still unbound
\* at the insert the result is stored under n when it is of a recognized
\* type, and nothing is stored when it is not.  When n is bound at the first
\* lookup the factory is not invoked, the call never reaches its insert, and
\* the bound instance is returned.
C7_FactoryOnAbsent ==
    \A id \in FramesOf("GetOrRegister") :
      LET f == Frame(id) IN
      f.arg \in Factories =>
        /\ (f.found = "absent" /\ f.pc \in {"Lock", "LockWait", "Unlock", "done"})
              => f.calls = 1
        /\ (f.pc = "Unlock" /\ f.ins = "absent")
              => /\ f.ret = Invoke(f.arg)
                 /\ IsRecognized(Invoke(f.arg)) => metrics[f.name] = Invoke(f.arg)
                 /\ ~IsRecognized(Invoke(f.arg)) => metrics[f.name] = Absent
        /\ f.found = "present"
              => /\ f.calls = 0 /\ f.pc = "done" /\ f.ins = "none"
                 /\ f.ret = f.at[f.name]

\* one call invoked its factory and stored the result, and a later call with
\* a factory found the name bound and returned that instance
C7_Witness ==
    \E g1, g2 \in FramesOf("GetOrRegister") :
        /\ Frame(g1).arg \in Factories /\ Frame(g1).pc = "done" /\ Frame(g1).ins = "absent"
        /\ Frame(g1).calls = 1 /\ metrics[Frame(g1).name] = Frame(g1).ret
        /\ Frame(g2).arg \in Factories /\ Frame(g2).pc = "done" /\ Frame(g2).found = "present"
        /\ Frame(g2).calls = 0 /\ Frame(g2).ret = Frame(g1).ret

\* C8: the pairs Each hands to the visitor are the pairs of the registry at
\* the instant the call took its read lock, each handed over once, whatever
\* other goroutines register or unregister meanwhile.
C8_EachSnapshot ==
    \A id \in FramesOf("Each") :
      LET f == Frame(id) IN
        /\ f.pc = "copy" => \A n \in f.seen : f.snap[n] = f.at[n]
        /\ f.pc \in {"range", "visit", "done"} => f.snap = f.at
        /\ \A p \in BagToSet(f.visited) : CopiesIn(p, f.visited) = 1 /\ p \in Pairs(f.at)
        /\ f.pc = "done" => f.visited = SetToBag(Pairs(f.at))

\* an Each has visited a pair of a registry that has changed since its snapshot
C8_Witness ==
    \E id \in FramesOf("Each") :
        /\ Frame(id).pc = "done" /\ Frame(id).visited # EmptyBag
        /\ metrics # Frame(id).at

\* C9: while the visitor of Each runs, the Each call holds no lock: with no
\* other goroutine in the registry the lock is free, a registry call made by
\* the visitor is never blocked at its RLock or Lock, and whatever that call
\* does the pairs visited and still to visit are those of the snapshot.
C9_Alone(t) == \A u \in Threads \ {t} : stack[u] = <<>>
C9_VisitorHoldsNoLock ==
    \A t \in Threads :
      (Depth(t) >= 1 /\ stack[t][1].op = "Each" /\ stack[t][1].pc = "visit") =>
        LET f == stack[t][1] IN
        /\ (C9_Alone(t) /\ Depth(t) = 1) => readerCount = 0 /\ writer = "free"
        /\ (C9_Alone(t) /\ Depth(t) = 2) =>
              /\ Top(t).pc \in {"RLock", "Lock"} => writer = "free"
              /\ Top(t).pc = "LockWait" => readerCount = 0
        /\ f.snap = f.at
        /\ BagToSet(f.visited) \cup {<<n, f.snap[n]>> : n \in Keys(f.snap) \ f.seen}
              = Pairs(f.at)

\* a visitor's Register, Unregister or UnregisterAll has returned and changed
\* the registry the enclosing Each took its snapshot of
C9_Witness ==
    \E t \in Threads :
        /\ C9_Alone(t) /\ Depth(t) = 2
        /\ stack[t][1].op = "Each" /\ stack[t][1].pc = "visit"
        /\ Top(t).op \in {"Register", "Unregister", "UnregisterAll"} /\ Top(t).pc = "done"
        /\ metrics # stack[t][1].at

\* C10: RunHealthchecks calls Check() once on every Healthcheck entry that is
\* registered when it takes the read lock and on no other entry, and no step
\* of the call changes the registry.
C10_HealthcheckPairs(m) == {p \in Pairs(m) : Kind(p[2]) = "Healthcheck"}
C10_Checked ==
    \A id \in FramesOf("RunHealthchecks") :
      LET f == Frame(id) IN
        /\ \A p \in BagToSet(f.visited) :
             CopiesIn(p, f.visited) = 1 /\ p \in C10_HealthcheckPairs(f.at)
        /\ f.pc \in {"RUnlock", "done"} => f.visited = SetToBag(C10_HealthcheckPairs(f.at))
C10_RunHealthchecks ==
    /\ []C10_Checked
    /\ [][\A t \in Threads :
            (Depth(t) > 0 /\ Top(t).op = "RunHealthchecks" /\ stack'[t] # stack[t])
               => metrics' = metrics]_vars

\* a RunHealthchecks over a Healthcheck and a Counter has checked the first only
C10_Witness ==
    \E id \in FramesOf("RunHealthchecks") :
        /\ Frame(id).pc = "RUnlock"
        /\ \E p \in Pairs(Frame(id).at) : Kind(p[2]) = "Counter"
        /\ C10_HealthcheckPairs(Frame(id).at) # {}
        /\ Frame(id).visited # EmptyBag

\* C11: Unregister(n) leaves n absent whether or not it was bound, leaves
\* every entry under another name as it was, and a Get(n) returns nil for as
\* long as n has not been registered again.
C11_GetAfterRemoval ==
    \A id \in FramesOf("Get") :
      LET f == Frame(id) IN
      (f.pc = "RUnlock" /\ entries[f.name] = Absent) => f.ret = Nil
C11_Unregister ==
    /\ []C11_GetAfterRemoval
    /\ [][\A t \in Threads :
            Steps(t, "Unregister", "LockWait")
               => /\ metrics'[Top(t).name] = Absent
                  /\ \A n \in Names \ {Top(t).name} : metrics'[n] = metrics[n]
                  /\ stack'[t][Depth(t)].err = Nil]_vars

\* an Unregister has removed a bound name, and a Get of that name that came
\* after it reads nil
C11_Witness ==
    \E u \in FramesOf("Unregister"), g \in FramesOf("Get") :
        /\ Frame(u).pc = "done" /\ Frame(u).found = "present"
        /\ Frame(g).pc = "RUnlock" /\ Frame(g).name = Frame(u).name
        /\ Frame(g).ret = Nil

\* C12: UnregisterAll leaves the registry empty, so that Get reads nil for
\* every name; it changes nothing in an empty registry, clearing twice is
\* clearing once, and an Each that finds the registry empty visits nothing.
C12_EachOfEmpty ==
    \A id \in FramesOf("Each") :
      LET f == Frame(id) IN
      (f.pc \in {"range", "visit", "done"} /\ f.at = EmptyMap)
         => f.visited = EmptyBag /\ f.pc # "visit"
C12_UnregisterAll ==
    /\ []C12_EachOfEmpty
    /\ [][\A t \in Threads :
            Steps(t, "UnregisterAll", "LockWait")
               => /\ metrics' = EmptyMap
                  /\ \A n \in Names : Lookup(metrics', n) = Nil
                  /\ metrics = EmptyMap => metrics' = metrics
                  /\ deleteAll(metrics') = metrics']_vars

\* an UnregisterAll has returned, and an Each that came after it is done
\* without a visit
C12_Witness ==
    \E u \in FramesOf("UnregisterAll"), e \in FramesOf("Each") :
        /\ Frame(u).pc = "done"
        /\ Frame(e).pc = "done" /\ Frame(e).at = EmptyMap
        /\ Frame(e).visited = EmptyBag

\* C13: while the factory of a GetOrRegister runs, the call holds no lock:
\* with no other goroutine in the registry the lock is free, a registry call
\* made by the factory is never blocked at its RLock or Lock, and after the
\* factory has returned the outer call is not blocked at its own Lock.
C13_Alone(t) == \A u \in Threads \ {t} : stack[u] = <<>>
C13_FactoryHoldsNoLock ==
    \A t \in Threads :
      (C13_Alone(t) /\ Depth(t) >= 1 /\ stack[t][1].op = "GetOrRegister") =>
        LET f == stack[t][1] IN
        /\ (f.pc = "factory" /\ Depth(t) = 1) => readerCount = 0 /\ writer = "free"
        /\ (f.pc = "factory" /\ Depth(t) = 2) =>
              /\ Top(t).pc \in {"RLock", "Lock"} => writer = "free"
              /\ Top(t).pc = "LockWait" => readerCount = 0
        /\ (f.pc = "Lock" /\ f.calls = 1) => writer = "free"
        /\ (f.pc = "LockWait" /\ f.calls = 1) => readerCount = 0

\* a factory's Register, Unregister or GetOrRegister has returned, having
\* changed the registry the outer call looked the name up in
C13_Witness ==
    \E t \in Threads :
        /\ C13_Alone(t) /\ Depth(t) = 2
        /\ stack[t][1].op = "GetOrRegister" /\ stack[t][1].pc = "factory"
        /\ Top(t).op \in {"Register", "Unregister", "GetOrRegister"} /\ Top(t).pc = "done"
        /\ metrics # stack[t][1].at

\* C14: a call that holds the write lock excludes every other holder: no
\* other call holds the write lock or a read hold; the map changes only in a
\* step of Register, Unregister, UnregisterAll or GetOrRegister that holds
\* the write lock when it is done; Get, Each and RunHealthchecks hold read
\* holds only and their steps leave the map as it is.
C14_WriteOps == {"Register", "Unregister", "UnregisterAll", "GetOrRegister"}
C14_HoldsWrite(f) == f.op \in C14_WriteOps /\ f.pc = "Unlock"
C14_HoldsRead(f) ==
    \/ f.op = "Get" /\ f.pc = "RUnlock"
    \/ f.op = "GetOrRegister" /\ f.pc = "lookup"
    \/ f.op = "Each" /\ f.pc = "copy"
    \/ f.op = "RunHealthchecks" /\ f.pc \in {"range", "Check", "RUnlock"}
C14_Exclusion ==
    /\ Cardinality({id \in FrameIds : C14_HoldsWrite(Frame(id))}) <= 1
    /\ (\E id \in FrameIds : C14_HoldsWrite(Frame(id)))
          => /\ writer = "held" /\ readerCount = 0
             /\ \A id \in FrameIds : ~C14_HoldsRead(Frame(id))
    /\ readerCount = Cardinality({id \in FrameIds : C14_HoldsRead(Frame(id))})
    /\ \A id \in FrameIds :
         Frame(id).op \in {"Get", "Each", "RunHealthchecks"} => ~C14_HoldsWrite(Frame(id))
C14_LockDiscipline ==
    /\ []C14_Exclusion
    /\ [][/\ metrics' # metrics =>
               \E t \in Threads :
                  /\ Depth(t) > 0 /\ Top(t).op \in C14_WriteOps /\ Top(t).pc = "LockWait"
                  /\ stack'[t] # stack[t]
                  /\ C14_HoldsWrite(stack'[t][Depth(t)])
                  /\ writer' = "held"
          /\ \A t \in Threads :
               (Depth(t) > 0 /\ Top(t).op \in {"Get", "Each", "RunHealthchecks"}
                  /\ stack'[t] # stack[t]) => metrics' = metrics]_vars

\* one call holds the write lock while another goroutine waits at its RLock
\* and a third call, if any, waits at its Lock
C14_Witness ==
    \E t, u \in Threads :
        /\ t # u /\ Depth(t) > 0 /\ Depth(u) > 0
        /\ C14_HoldsWrite(Top(t)) /\ metrics # InitialMap
        /\ Top(u).pc = "RLock"

\* C15: when GetOrRegister(n, v) with a recognized value, or a factory that
\* produces one, returns, and no Unregister or UnregisterAll ran during the
\* call, the instance it returns is the instance bound to n at the time of
\* return, also for a caller that found n absent and whose insert came after
\* another caller's insert. The deferred Unlock runs at the return, so the
\* map at pc "Unlock" is the map at the time of return; the premise on ncalls
\* says every call made so far is a GetOrRegister call still in progress, so
\* no Unregister or UnregisterAll has run at all.
C15_NoRemoval == ncalls = Cardinality(FramesOf("GetOrRegister"))
C15_ReturnsBound ==
    \A id \in FramesOf("GetOrRegister") :
        LET f == Frame(id) IN
        (f.pc = "Unlock" /\ IsRecognized(f.ret) /\ C15_NoRemoval)
            => metrics[f.name] = f.ret

\* C16: RunHealthchecks holds the read lock from before its first Check() to
\* after its last: while a RunHealthchecks call is in its loop no Register,
\* Unregister, UnregisterAll or GetOrRegister insert takes effect, so the
\* registry at every Check() of the call is the registry the call locked.
C16_InLoop(f) == f.op = "RunHealthchecks" /\ f.pc \in {"range", "Check", "RUnlock"}
C16_HeldThroughout ==
    \A id \in FramesOf("RunHealthchecks") :
        LET f == Frame(id) IN
        C16_InLoop(f) => /\ metrics = f.at
                         /\ readerCount >= 1
                         /\ writer # "held"
C16_RunHealthchecksLock ==
    /\ []C16_HeldThroughout
    /\ [][(\E id \in FrameIds : C16_InLoop(Frame(id))) =>
             /\ metrics' = metrics
             /\ \A t \in Threads : ~Steps(t, "Register", "LockWait")
                                   /\ ~Steps(t, "Unregister", "LockWait")
                                   /\ ~Steps(t, "UnregisterAll", "LockWait")
                                   /\ ~Steps(t, "GetOrRegister", "LockWait")]_vars

\* a RunHealthchecks call is inside a Check() while another goroutine's
\* Register of a recognized value waits for the write lock
C16_Witness ==
    \E t, u \in Threads :
        /\ t # u /\ Depth(t) > 0 /\ Depth(u) > 0
        /\ stack[t][1].op = "RunHealthchecks" /\ stack[t][1].pc = "Check"
        /\ Top(u).op = "Register" /\ Top(u).pc = "LockWait"
        /\ IsRecognized(Top(u).i) /\ metrics[Top(u).name] = Absent

\* C17: when a Check() invoked by RunHealthchecks calls Register, Unregister
\* or UnregisterAll on the same registry, the inner call never obtains the
\* write lock, because the enclosing RunHealthchecks still holds the read
\* lock, and neither the inner call nor RunHealthchecks ever returns: the
\* inner call stays before or in its Lock, the outer call stays in Check(),
\* and both frames stay on the goroutine's stack in every later state.
C17_Inner == {"Register", "Unregister", "UnregisterAll"}
C17_Nested(t, k) ==
    /\ k + 1 <= Depth(t)
    /\ stack[t][k].op = "RunHealthchecks"
    /\ stack[t][k + 1].op \in C17_Inner
C17_Stuck ==
    \A t \in Threads : \A k \in 1..MaxDepth :
        C17_Nested(t, k) =>
            /\ stack[t][k].pc = "Check"
            /\ stack[t][k + 1].pc \in {"Lock", "LockWait"}
            /\ Depth(t) = k + 1
            /\ readerCount >= 1
            /\ writer # "held"
C17_SelfDeadlock ==
    /\ []C17_Stuck
    /\ [][\A t \in Threads : \A k \in 1..MaxDepth :
            C17_Nested(t, k) =>
                /\ Len(stack'[t]) = Depth(t)
                /\ stack'[t][k] = stack[t][k]
                /\ stack'[t][k + 1].op = stack[t][k + 1].op
                /\ stack'[t][k + 1].pc \in {"Lock", "LockWait"}
                /\ metrics' = metrics]_vars

\* the inner Register has asked for the write lock and waits for the read
\* hold of the RunHealthchecks call beneath it
C17_Witness ==
    \E t \in Threads :
        /\ C17_Nested(t, 1)
        /\ Top(t).op = "Register" /\ Top(t).pc = "LockWait"
        /\ writer = "pending" /\ readerCount = 1
        /\ \A u \in Threads \ {t} : stack[u] = <<>>

\* C18: under fair scheduling, with visitors, factories and Check()
\* implementations that return and do not call the registry, every call of
\* Get, Register, GetOrRegister, Each, RunHealthchecks, Unregister and
\* UnregisterAll returns, whatever the other goroutines are calling: no
\* state with a call in progress is without a next step, no lock is held
\* when no call is in progress, a call that has finished its last statement
\* holds no lock, and every call in progress leads to its goroutine being
\* back in its caller.
C18_NoDeadlock == (\E t \in Threads : Depth(t) > 0) => ENABLED (\E t \in Threads : Step(t))
C18_Released ==
    /\ (\A t \in Threads : Depth(t) = 0) => (readerCount = 0 /\ writer = "free")
    /\ readerCount = Cardinality({id \in FrameIds : C14_HoldsRead(Frame(id))})
    /\ writer = "held" <=> \E id \in FrameIds : C14_HoldsWrite(Frame(id))
    /\ writer = "pending" <=> \E id \in FrameIds : Frame(id).pc = "LockWait"
    /\ \A id \in FrameIds :
         Frame(id).pc = "done" => ~C14_HoldsRead(Frame(id)) /\ ~C14_HoldsWrite(Frame(id))
C18_Terminates ==
    /\ []C18_NoDeadlock
    /\ []C18_Released
    /\ \A t \in Threads : (Depth(t) > 0) ~> (Depth(t) = 0)

\* a RunHealthchecks call is inside Check() with its read hold while a writer
\* in another goroutine waits for the lock
C18_Witness ==
    \E t, u \in Threads :
        /\ t # u /\ Depth(t) = 1 /\ Depth(u) = 1
        /\ Top(t).op = "RunHealthchecks" /\ Top(t).pc = "Check"
        /\ Top(u).op \in {"Register", "Unregister", "UnregisterAll"}
        /\ Top(u).pc = "LockWait"
        /\ readerCount = 1 /\ writer = "pending"

\* C19: GetOrRegister(n, v) on an absent name n with a value v, or a factory
\* result, outside the recognized set returns v to the caller and stores
\* nothing: the registry is unchanged, n is still absent, so a Get(n) that
\* reads next returns nil, and a GetOrRegister(n, factory) that looks n up
\* next invokes its factory again.
C19_AfterDrop ==
    /\ \A id \in FramesOf("Get") :
         LET f == Frame(id) IN
         (f.pc = "RUnlock" /\ f.at[f.name] = Absent) => f.ret = Nil
    /\ \A id \in FramesOf("GetOrRegister") :
         LET f == Frame(id) IN
         (f.pc \in {"factory", "Lock", "LockWait", "Unlock"} /\ IsFunc(f.arg))
             => (f.at[f.name] = Absent /\ f.calls = 1)
C19_UnrecognizedNotStored ==
    /\ []C19_AfterDrop
    /\ [][\A t \in Threads :
            (Steps(t, "GetOrRegister", "LockWait") /\ ~IsRecognized(Top(t).i)) =>
                /\ metrics' = metrics
                /\ stack'[t][Depth(t)].ret = Top(t).i
                /\ metrics[Top(t).name] = Absent => metrics'[Top(t).name] = Absent]_vars

\* a GetOrRegister with the factory of an unrecognized value has returned
\* that value with the name absent before and after its insert, and a second
\* GetOrRegister of the same name, which locked the registry afterwards, has
\* invoked its own factory
C19_Witness ==
    \E g, h \in FramesOf("GetOrRegister") :
        /\ g # h /\ Frame(g).name = Frame(h).name
        /\ Frame(g).arg = "newBogus" /\ Frame(g).pc = "done" /\ Frame(g).ret = "bogus"
        /\ Frame(g).ins = "absent" /\ metrics[Frame(g).name] = Absent
        /\ IsFunc(Frame(h).arg) /\ Frame(h).calls = 1 /\ Frame(h).pc = "Lock"

\* C20: the factory of GetOrRegister is not invoked at most once per name:
\* two callers of GetOrRegister(n, factory) for the same absent name n can
\* both invoke their factory (the witness below is such an interleaving). In
\* every execution each GetOrRegister call invokes its factory at most once,
\* and only the first inserted result is retained under n: an insert that
\* finds n bound leaves the registry as it is.
C20_AtMostOncePerCall ==
    \A id \in FramesOf("GetOrRegister") :
        LET f == Frame(id) IN
        /\ f.calls <= 1
        /\ f.calls = 1 => IsFunc(f.arg) /\ f.found = "absent"
        /\ (f.pc = "Unlock" /\ f.ins = "present") => metrics[f.name] = entries[f.name]
C20_FactoryRace ==
    /\ []C20_AtMostOncePerCall
    /\ [][\A t \in Threads :
            Steps(t, "GetOrRegister", "LockWait") =>
                /\ stack'[t][Depth(t)].calls = Top(t).calls
                /\ metrics[Top(t).name] # Absent => metrics' = metrics]_vars

\* both callers found the name absent and invoked their factory; the first
\* has inserted its result and returned, the second has run its insert with
\* the name bound and the registry keeps the first result
C20_Witness ==
    \E g, h \in FramesOf("GetOrRegister") :
        /\ g # h /\ Frame(g).name = Frame(h).name
        /\ IsFunc(Frame(g).arg) /\ IsFunc(Frame(h).arg)
        /\ Frame(g).calls = 1 /\ Frame(h).calls = 1
        /\ Frame(g).found = "absent" /\ Frame(h).found = "absent"
        /\ Frame(g).pc = "done" /\ Frame(g).ins = "absent" /\ IsRecognized(Frame(g).ret)
        /\ Frame(h).pc = "Unlock" /\ Frame(h).ins = "present"
        /\ metrics[Frame(g).name] = Frame(g).ret
====
